---- MODULE Spec2Model ----
(***************************************************************************)
(* Jharkhand tourism backend.                                              *)
(*                                                                         *)
(* Part 1: the booking-number allocator (the Counter model:                *)
(* getNextBookingNumber), run by several concurrent request handlers       *)
(* against one counter document of the document store.                     *)
(* Part 2: the request-validation middleware (validate, validateMultiple)  *)
(* and the pagination schema.                                              *)
(* Part 3: the homestays controller over its in-memory store.              *)
(***************************************************************************)
EXTENDS Integers, Sequences, FiniteSets

(***************************************************************************)
(* Bounds of the model.                                                    *)
(***************************************************************************)
\* Number of concurrent request handlers calling getNextBookingNumber.
NumProcs == 2
\* Total number of getNextBookingNumber calls in one behaviour.
MaxCalls == 3

Procs == 1..NumProcs

\* The calendar years the wall clock passes through.
Years == 2025..2026

\* Formatting alone is exercised on every seq from 0 to MaxSmallSeq and on
\* the values of LargeSeqs.
MaxSmallSeq == 60
LargeSeqs == {99999, 100000, 999999, 1000000, 1234567, 10000000}
FormatInputs == (0..MaxSmallSeq) \cup LargeSeqs

\* Values of seq the counter document may hold when observation starts, next
\* to the empty collection.  Every n >= 1 is the state of the document after
\* n committed increments.
StartSeqs == {1000}

(***************************************************************************)
(* State.                                                                  *)
(***************************************************************************)
VARIABLES
    counter,    \* the 'bookingNumber' document
    year,       \* new Date().getFullYear() of the wall clock
    pc,         \* per handler: "idle", "awaiting" (update sent), "replied"
    yearRead,   \* per handler: const year, read before the await
    reply,      \* per handler: the document the store answered with
    calls,      \* number of calls issued so far
    \* History, for stating the properties:
    initial,    \* the document as it was when observation started
    floor,      \* per handler: largest value returned before its call began
    slot,       \* per handler: position of its update in commits
    commits,    \* updates applied by the store, in the order applied
    outcomes    \* how each finished call ended, in the order they finished

allocVars ==
    <<counter, year, pc, yearRead, reply, calls,
      initial, floor, slot, commits, outcomes>>


VARIABLES
    fmtYear,    \* formatting alone: the year
    fmtSeq,     \* formatting alone: counter.seq
    fmtOut      \* formatting alone: the string built, <<>> before

fmtVars == <<fmtYear, fmtSeq, fmtOut>>

VARIABLES
    mwSchema,   \* validate(schema, target): the schema the middleware was made with
    mwTarget,   \* validate(schema, target): 'body', 'query' or 'params'
    mwPc,       \* "pending" before the middleware runs, "done" after ("idle": no request)
    req,        \* the request: body, query and params
    res,        \* the response: what sendError was called with, if it was
    nextCalls,  \* the arguments of every call of next(), in order
    \* History, for stating the properties:
    reqIn,      \* the request as it arrived
    reqAtNext   \* the request as it was at each call of next()

mwVars == <<mwSchema, mwTarget, mwPc, req, res, nextCalls, reqIn, reqAtNext>>

VARIABLES
    mmEntries,  \* validateMultiple(schemas): Object.entries(schemas), in order
    mmPc,       \* "pending" before that middleware runs, "done" after ("idle": no request)
    \* History, for stating the properties:
    mmParsed    \* the targets whose data was handed to schema.parse

mmVars == <<mmEntries, mmPc, mmParsed>>

VARIABLES
    pgIn,       \* paginationQuerySchema alone: the query object parsed
    pgOut       \* paginationQuerySchema alone: the parse result, <<>> before

pgVars == <<pgIn, pgOut>>

VARIABLES
    homestaysStore, \* the in-memory array of homestays
    now,            \* new Date() of the wall clock
    generated,      \* number of ids generateId has handed out
    hsRequests,     \* number of requests the controller has handled
    hsRes,          \* the response of the last request: status and message
    hsData,         \* the homestay sent with it, if any, as a list of 0 or 1
    \* History, for stating the properties:
    hsLast,         \* the last request: handler, id, body
    storeBefore     \* the array as it was before the last request

hsVars ==
    <<homestaysStore, now, generated, hsRequests, hsRes, hsData, hsLast, storeBefore>>

vars == <<allocVars, fmtVars, mwVars, mmVars, pgVars, hsVars>>

(***************************************************************************)
(* Program constants.                                                      *)
(***************************************************************************)
\* counterSchema: seq: { type: Number, default: 1000 }
SeqDefault == 1000
\* { $inc: { seq: 1 } }
IncAmount == 1
\* padStart(6, '0')
PadWidth == 6

(***************************************************************************)
(* Strings are sequences of one-character strings.                         *)
(***************************************************************************)
DigitChars == <<"0", "1", "2", "3", "4", "5", "6", "7", "8", "9">>

\* Number.prototype.toString() of a non-negative integer: decimal digits,
\* most significant first, no leading zero.
RECURSIVE NumberToString(_)
NumberToString(n) ==
    IF n < 10 THEN <<DigitChars[n + 1]>>
    ELSE NumberToString(n \div 10) \o <<DigitChars[(n % 10) + 1]>>

\* Variant: ('000000' + s).slice(-6), which keeps the last targetLength
\* characters and so cuts a longer number.
PadStartSlice(s, targetLength, padChar) ==
    LET t == [i \in 1..targetLength |-> padChar] \o s
    IN  SubSeq(t, Len(t) - targetLength + 1, Len(t))

\* String.prototype.padStart(targetLength, padChar) for a one-character pad:
\* the string itself when it is already long enough, otherwise pad
\* characters in front up to targetLength.
PadStart(s, targetLength, padChar) ==
    IF Len(s) >= targetLength THEN s
    ELSE [i \in 1..(targetLength - Len(s)) |-> padChar] \o s

\* counter.seq.toString().padStart(6, '0')
SequenceNumber(seq) == PadStart(NumberToString(seq), PadWidth, "0")

\* Variant: the year is taken from the clock when the string is built, after
\* the await, instead of the year read when the call began.
BookingNumberYearAtReturn(yr, seq) ==
    <<"J", "Y", "-">> \o NumberToString(year) \o <<"-">> \o SequenceNumber(seq)

\* `JY-${year}-${sequenceNumber}`
BookingNumber(yr, seq) ==
    <<"J", "Y", "-">> \o NumberToString(yr) \o <<"-">> \o SequenceNumber(seq)

(***************************************************************************)
(* The document store.                                                     *)
(***************************************************************************)
\* The 'bookingNumber' document of the counters collection: absent, or
\* present with a numeric seq.
NoCounter == [exists |-> FALSE, seq |-> 0]

\* Variant: the update document is { seq: 1 } without $inc, which sets the
\* field instead of incrementing it.
FindOneAndUpdateSet(c) == [exists |-> TRUE, seq |-> IncAmount]

\* Variant: a sequence that restarts with the calendar year.
FindOneAndUpdatePerYear(c) ==
    IF c.exists /\ ~(commits # <<>> /\ commits[Len(commits)].year < year)
    THEN [exists |-> TRUE, seq |-> c.seq + IncAmount]
    ELSE [exists |-> TRUE, seq |-> IncAmount]

\* CounterModel.findOneAndUpdate({_id:'bookingNumber'}, {$inc:{seq:1}},
\*                               {new:true, upsert:true}),
\* executed atomically by the store; the value is the document after the
\* update ({new: true}).
\*  - document present: seq is incremented.
\*  - document absent (upsert): the store inserts {_id:'bookingNumber'} and
\*    applies the update to it; $inc on a missing field sets the field to
\*    the increment.  The schema default is added to an upsert only for the
\*    paths the update does not itself modify (a $setOnInsert of seq next to
\*    an $inc of seq is a conflicting update), so it never applies to seq.
FindOneAndUpdate(c) ==
    IF c.exists
    THEN [exists |-> TRUE, seq |-> c.seq + IncAmount]
    ELSE [exists |-> TRUE, seq |-> IncAmount]

Max(S) == IF S = {} THEN 0 ELSE CHOOSE m \in S : \A x \in S : x <= m

OkOutcomes == {i \in 1..Len(outcomes) : outcomes[i].kind = "ok"}
ErrOutcomes == {i \in 1..Len(outcomes) : outcomes[i].kind = "error"}
Returned == {outcomes[i].seq : i \in OkOutcomes}

AllocStart(doc) ==
    /\ counter = doc
    /\ initial = counter
    /\ year = 2025
    /\ pc = [p \in Procs |-> "idle"]
    /\ yearRead = [p \in Procs |-> 0]
    /\ reply = [p \in Procs |-> NoCounter]
    /\ floor = [p \in Procs |-> 0]
    /\ slot = [p \in Procs |-> 0]
    /\ calls = 0
    /\ commits = <<>>
    /\ outcomes = <<>>

AllocInit ==
    \E doc \in {NoCounter} \cup {[exists |-> TRUE, seq |-> n] : n \in StartSeqs} :
        AllocStart(doc)

\* No allocation is under way.
AllocQuiet == AllocStart(NoCounter)

\* getNextBookingNumber up to the await: the year is read, the update is
\* handed to the store.
Call(p) ==
    /\ pc[p] = "idle"
    /\ calls < MaxCalls
    /\ calls' = calls + 1
    /\ yearRead' = [yearRead EXCEPT ![p] = year]
    /\ floor' = [floor EXCEPT ![p] = Max(Returned)]
    /\ pc' = [pc EXCEPT ![p] = "awaiting"]
    /\ UNCHANGED <<counter, year, reply, initial, slot, commits, outcomes>>
    /\ UNCHANGED <<fmtVars, mwVars, mmVars, pgVars, hsVars>>

\* Variant: findOne followed by save, two store operations instead of one
\* find-and-modify; another handler's update may fall between them.
StoreReadThenWrite(p) ==
    \/ /\ pc[p] = "awaiting"
       /\ reply' = [reply EXCEPT ![p] = counter]
       /\ pc' = [pc EXCEPT ![p] = "read"]
       /\ UNCHANGED <<counter, year, yearRead, calls, initial, floor, slot,
                      commits, outcomes>>
       /\ UNCHANGED <<fmtVars, mwVars, mmVars, pgVars, hsVars>>
    \/ /\ pc[p] = "read"
       /\ counter' = FindOneAndUpdate(reply[p])
       /\ reply' = [reply EXCEPT ![p] = counter']
       /\ commits' = Append(commits, [proc |-> p, year |-> year, seq |-> counter'.seq])
       /\ slot' = [slot EXCEPT ![p] = Len(commits) + 1]
       /\ pc' = [pc EXCEPT ![p] = "replied"]
       /\ UNCHANGED <<year, yearRead, calls, initial, floor, outcomes>>
       /\ UNCHANGED <<fmtVars, mwVars, mmVars, pgVars, hsVars>>

\* The store applies the update of handler p: a find-and-modify on one
\* document is one atomic step of the store.
StoreCommit(p) ==
    /\ pc[p] = "awaiting"
    /\ counter' = FindOneAndUpdate(counter)
    /\ reply' = [reply EXCEPT ![p] = counter']
    /\ commits' = Append(commits, [proc |-> p, year |-> year, seq |-> counter'.seq])
    /\ slot' = [slot EXCEPT ![p] = Len(commits) + 1]
    /\ pc' = [pc EXCEPT ![p] = "replied"]
    /\ UNCHANGED <<year, yearRead, calls, initial, floor, outcomes>>
    /\ UNCHANGED <<fmtVars, mwVars, mmVars, pgVars, hsVars>>

\* Variant: the rejection is caught and a booking number is built from the
\* schema default instead.
RejectionSwallowed(p, didCommit) ==
    [proc |-> p, kind |-> "ok", year |-> yearRead[p], seq |-> SeqDefault,
     str |-> BookingNumber(yearRead[p], SeqDefault),
     floor |-> floor[p], slot |-> IF didCommit THEN slot[p] ELSE 0]

\* What the caller gets when the awaited update rejects: there is no
\* try/catch in getNextBookingNumber, so its promise rejects with the
\* store's error and no string is produced.
Rejection(p, didCommit) ==
    [proc |-> p, kind |-> "error", year |-> yearRead[p], committed |-> didCommit,
     slot |-> IF didCommit THEN slot[p] ELSE Len(commits), seen |-> counter]

\* The store is unreachable or refuses the update: nothing is applied and
\* the awaited promise rejects.
StoreFail(p) ==
    /\ pc[p] = "awaiting"
    /\ outcomes' = Append(outcomes, Rejection(p, FALSE))
    /\ pc' = [pc EXCEPT ![p] = "idle"]
    /\ UNCHANGED <<counter, year, yearRead, reply, calls, initial, floor, slot, commits>>
    /\ UNCHANGED <<fmtVars, mwVars, mmVars, pgVars, hsVars>>

\* Variant: on a timeout the handler undoes "its" increment with a second
\* update ($inc: -1) before failing.
ReplyLostRollback(p) ==
    /\ pc[p] = "replied"
    /\ counter' = [counter EXCEPT !.seq = @ - IncAmount]
    /\ outcomes' = Append(outcomes, Rejection(p, TRUE))
    /\ pc' = [pc EXCEPT ![p] = "idle"]
    /\ UNCHANGED <<year, yearRead, reply, calls, initial, floor, slot, commits>>
    /\ UNCHANGED <<fmtVars, mwVars, mmVars, pgVars, hsVars>>

\* The update was applied but its answer never reaches the handler (timeout,
\* connection lost): the awaited promise rejects although seq has moved.
ReplyLost(p) ==
    /\ pc[p] = "replied"
    /\ outcomes' = Append(outcomes, Rejection(p, TRUE))
    /\ pc' = [pc EXCEPT ![p] = "idle"]
    /\ UNCHANGED <<counter, year, yearRead, reply, calls, initial, floor, slot, commits>>
    /\ UNCHANGED <<fmtVars, mwVars, mmVars, pgVars, hsVars>>

\* What the caller gets when the await resolves with document doc.
Resolution(p, doc) ==
    [proc |-> p, kind |-> "ok", year |-> yearRead[p], seq |-> doc.seq,
     str |-> BookingNumber(yearRead[p], doc.seq),
     floor |-> floor[p], slot |-> slot[p]]

\* getNextBookingNumber after the await: format and return.
Return(p) ==
    /\ pc[p] = "replied"
    /\ outcomes' = Append(outcomes, Resolution(p, reply[p]))
    /\ pc' = [pc EXCEPT ![p] = "idle"]
    /\ UNCHANGED <<counter, year, yearRead, reply, calls, initial, floor, slot, commits>>
    /\ UNCHANGED <<fmtVars, mwVars, mmVars, pgVars, hsVars>>

\* The wall clock passes into the next calendar year.
YearTick ==
    /\ year + 1 \in Years
    /\ year' = year + 1
    /\ UNCHANGED <<counter, pc, yearRead, reply, calls, initial, floor, slot, commits, outcomes>>
    /\ UNCHANGED <<fmtVars, mwVars, mmVars, pgVars, hsVars>>

AllocNext ==
    \/ \E p \in Procs : Call(p)
    \/ \E p \in Procs : StoreCommit(p)
    \/ \E p \in Procs : StoreFail(p)
    \/ \E p \in Procs : ReplyLost(p)
    \/ \E p \in Procs : Return(p)
    \/ YearTick

(***************************************************************************)
(* Formatting alone: lines 61-62 of getNextBookingNumber applied to a      *)
(* document whose seq is fmtSeq, in year fmtYear.                          *)
(***************************************************************************)
FormatQuiet ==
    /\ fmtYear = 2025
    /\ fmtSeq = 0
    /\ fmtOut = <<>>

FormatInit ==
    /\ fmtYear \in Years
    /\ fmtSeq \in FormatInputs
    /\ fmtOut = <<>>

Format ==
    /\ fmtOut = <<>>
    /\ fmtOut' = BookingNumber(fmtYear, fmtSeq)
    /\ UNCHANGED <<fmtYear, fmtSeq>>
    /\ UNCHANGED <<allocVars, mwVars, mmVars, pgVars, hsVars>>

(***************************************************************************)
(* Request validation: validate(schema, target).                           *)
(*                                                                         *)
(* A request part (body, query, params) is an object: a function from the  *)
(* keys it has to values.  A value is a string or a number.                *)
(***************************************************************************)
Str(s) == [kind |-> "string", str |-> s, num |-> 0]
Num(n) == [kind |-> "number", str |-> <<>>, num |-> n]

EmptyObject == <<>>

\* The object holding key k with value v next to the keys of obj.
With(obj, k, v) ==
    [x \in DOMAIN obj \cup {k} |-> IF x = k THEN v ELSE obj[x]]

\* Object.assign(dst, src): every key of src is written onto dst; the keys
\* dst has and src lacks stay.
ObjectAssign(dst, src) ==
    [k \in DOMAIN dst \cup DOMAIN src |-> IF k \in DOMAIN src THEN src[k] ELSE dst[k]]

\* ---- parseInt(string, 10) ----
NaN == [nan |-> TRUE, val |-> 0]
Int10(n) == [nan |-> FALSE, val |-> n]

RECURSIVE TrimStart(_)
TrimStart(s) == IF s # <<>> /\ s[1] = " " THEN TrimStart(Tail(s)) ELSE s

IsDigit(ch) == \E d \in 0..9 : DigitChars[d + 1] = ch

RECURSIVE LeadingDigits(_)
LeadingDigits(s) ==
    IF s # <<>> /\ IsDigit(s[1]) THEN <<s[1]>> \o LeadingDigits(Tail(s)) ELSE <<>>

RECURSIVE DecimalValue(_)
DecimalValue(s) ==
    IF s = <<>> THEN 0
    ELSE 10 * DecimalValue(SubSeq(s, 1, Len(s) - 1))
         + (CHOOSE d \in 0..9 : DigitChars[d + 1] = s[Len(s)])

\* Leading white space is skipped, one sign is read, then the longest run of
\* decimal digits; NaN when there is no digit.
ParseInt(s) ==
    LET t == TrimStart(s)
        signed == t # <<>> /\ t[1] \in {"-", "+"}
        digits == LeadingDigits(IF signed THEN Tail(t) ELSE t)
    IN  IF digits = <<>> THEN NaN
        ELSE IF signed /\ t[1] = "-" THEN Int10(0 - DecimalValue(digits))
        ELSE Int10(DecimalValue(digits))

\* val || fallback, for val a string or undefined (key absent)
OrElse(obj, k, fallback) ==
    IF k \in DOMAIN obj /\ obj[k].str # <<>> THEN obj[k].str ELSE fallback

\* paginationQuerySchema.page: the transform of an optional string
PageOf(obj) ==
    LET parsed == ParseInt(OrElse(obj, "page", <<"1">>))
    IN  IF parsed.nan \/ parsed.val < 1 THEN 1 ELSE parsed.val

\* Variant: the limit without the cap of Math.min(parsed, 100).
LimitOfUncapped(obj) ==
    LET parsed == ParseInt(OrElse(obj, "limit", <<"1", "0">>))
    IN  IF parsed.nan \/ parsed.val < 1 THEN 10 ELSE parsed.val

\* paginationQuerySchema.limit: the transform of an optional string
LimitOf(obj) ==
    LET parsed == ParseInt(OrElse(obj, "limit", <<"1", "0">>))
    IN  IF parsed.nan \/ parsed.val < 1 THEN 10
        ELSE IF parsed.val < 100 THEN parsed.val ELSE 100

\* ---- the schemas ----
SearchTypes == {<<"a", "l", "l">>, <<"g", "u", "i", "d", "e", "s">>}

\* The text of an issue the library words itself (a missing or mistyped
\* value, a value outside an enum) is carried as the issue's code.
InvalidType == "invalid_type"
InvalidEnumValue == "invalid_enum_value"
QueryTooShort == "Search query must be at least 2 characters"

Issue(path, message) == [path |-> path, message |-> message]

\* q: z.string().min(2, 'Search query must be at least 2 characters')
QIssues(obj) ==
    IF "q" \notin DOMAIN obj \/ obj["q"].kind # "string"
    THEN <<Issue(<<"q">>, InvalidType)>>
    ELSE IF Len(obj["q"].str) < 2 THEN <<Issue(<<"q">>, QueryTooShort)>>
    ELSE <<>>

\* type: z.enum(['all', 'homestays', 'guides', 'products']).default('all')
TypeIssues(obj) ==
    IF "type" \in DOMAIN obj
       /\ ~(obj["type"].kind = "string" /\ obj["type"].str \in SearchTypes)
    THEN <<Issue(<<"type">>, InvalidEnumValue)>>
    ELSE <<>>

\* page, limit: z.string().optional()
StringOrAbsentIssues(obj, k) ==
    IF k \in DOMAIN obj /\ obj[k].kind # "string"
    THEN <<Issue(<<k>>, InvalidType)>>
    ELSE <<>>

Accepted(data) == [ok |-> TRUE, data |-> data, issues |-> <<>>]
Rejected(issues) == [ok |-> FALSE, data |-> EmptyObject, issues |-> issues]

\* autocompleteQuerySchema.parse(obj): a z.object keeps the keys of its shape
\* and drops the others.
ParseAutocomplete(obj) ==
    IF QIssues(obj) # <<>> THEN Rejected(QIssues(obj))
    ELSE Accepted([k \in {"q"} |-> obj["q"]])

\* searchQuerySchema.parse(obj): the shape is page, limit, q, type, and the
\* issues come in that order.
ParseSearch(obj) ==
    LET issues == StringOrAbsentIssues(obj, "page") \o StringOrAbsentIssues(obj, "limit")
                  \o QIssues(obj) \o TypeIssues(obj)
    IN  IF issues # <<>> THEN Rejected(issues)
        ELSE Accepted([k \in {"page", "limit", "q", "type"} |->
                 CASE k = "page" -> Num(PageOf(obj))
                   [] k = "limit" -> Num(LimitOf(obj))
                   [] k = "q" -> obj["q"]
                   [] k = "type" ->
                        IF "type" \in DOMAIN obj THEN obj["type"]
                        ELSE Str(<<"a", "l", "l">>)])

Schemas == {"autocompleteQuerySchema", "searchQuerySchema"}

\* schema.parse(data): the validated data, or a ZodError with its issues.
Parse(schema, obj) ==
    IF schema = "autocompleteQuerySchema" THEN ParseAutocomplete(obj)
    ELSE ParseSearch(obj)

\* ---- the middleware ----
Targets == {"body", "query", "params"}

\* issue.path.join('.')
RECURSIVE JoinPath(_)
JoinPath(path) ==
    IF path = <<>> THEN ""
    ELSE IF Len(path) = 1 THEN path[1]
    ELSE path[1] \o "." \o JoinPath(Tail(path))

\* error.issues.map((issue) => ({ field: issue.path.join('.'), message }))
ValidationErrors(issues) ==
    [i \in 1..Len(issues) |->
        [field |-> JoinPath(issues[i].path), message |-> issues[i].message]]

NoResponse == [sent |-> FALSE, status |-> 0, message |-> "", errors |-> <<>>]

\* sendError(res, message, statusCode, errors)
SendError(message, statusCode, errors) ==
    [sent |-> TRUE, status |-> statusCode, message |-> message, errors |-> errors]

\* The request after the validated data has been written to req[target]:
\* req.body is assigned, req.query and req.params are Object.assign-ed.
WriteBack(r, target, validated) ==
    IF target = "body" THEN [r EXCEPT !.body = validated]
    ELSE [r EXCEPT ![target] = ObjectAssign(r[target], validated)]

\* next() without argument
NoArgument == "next()"

\* The middleware returned by validate(mwSchema, mwTarget), run on req: one
\* synchronous handler.  parse either returns the validated data or throws
\* a ZodError; the schemas modelled throw nothing else, so the last branch
\* of the catch, next(error), is not taken.
Validate ==
    /\ mwPc = "pending"
    /\ LET parsed == Parse(mwSchema, req[mwTarget]) IN
       IF parsed.ok
       THEN /\ req' = WriteBack(req, mwTarget, parsed.data)
            /\ nextCalls' = Append(nextCalls, NoArgument)
            /\ reqAtNext' = Append(reqAtNext, req')
            /\ res' = res
       ELSE /\ res' = SendError("Validation failed", 400, ValidationErrors(parsed.issues))
            /\ UNCHANGED <<req, nextCalls, reqAtNext>>
    /\ mwPc' = "done"
    /\ UNCHANGED <<mwSchema, mwTarget, reqIn>>
    /\ UNCHANGED <<allocVars, fmtVars, mmVars, pgVars, hsVars>>

\* The objects a request part is drawn from: each key absent or holding one
\* of the listed strings; "x" is a key no schema knows.
QValues == {<<"a">>, <<"a", "b">>}
TypeValues == {<<"a", "l", "l">>, <<"z", "z">>}
PageValues == {<<>>, <<"7">>, <<"0">>, <<"-", "3">>, <<"1", "2", "a">>, <<"a">>, <<" ", "5">>}
LimitValues == {<<"5", "0", "0">>, <<"2", "5">>}
ExtraValues == {<<"1">>}

Optional(k, values) == {EmptyObject} \cup {With(EmptyObject, k, Str(v)) : v \in values}

RequestObjects ==
    {ObjectAssign(ObjectAssign(ObjectAssign(ObjectAssign(a, b), c), d), e) :
        a \in Optional("q", QValues), b \in Optional("type", TypeValues),
        c \in Optional("page", PageValues), d \in Optional("limit", LimitValues),
        e \in Optional("x", ExtraValues)}

EmptyRequest == [body |-> EmptyObject, query |-> EmptyObject, params |-> EmptyObject]

ValidateQuiet ==
    /\ mwSchema = "autocompleteQuerySchema"
    /\ mwTarget = "body"
    /\ mwPc = "idle"
    /\ req = EmptyRequest
    /\ reqIn = req
    /\ res = NoResponse
    /\ nextCalls = <<>>
    /\ reqAtNext = <<>>

ValidateInit ==
    /\ mwSchema \in Schemas
    /\ mwTarget \in Targets
    /\ mwPc = "pending"
    /\ \E obj \in RequestObjects : req = [EmptyRequest EXCEPT ![mwTarget] = obj]
    /\ reqIn = req
    /\ res = NoResponse
    /\ nextCalls = <<>>
    /\ reqAtNext = <<>>

(***************************************************************************)
(* Request validation: validateMultiple(schemas).                          *)
(*                                                                         *)
(* schemas maps some of the targets to a schema; Object.entries gives its  *)
(* entries in the order the keys were written.  An entry may hold no       *)
(* schema (the map is Partial).                                            *)
(***************************************************************************)
NoSchema == "undefined"

Entry(target, schema) == [target |-> target, schema |-> schema]

\* error.issues.map((issue) => ({ field: `${target}.${issue.path.join('.')}`,
\*                                message: issue.message }))
PrefixedErrors(target, issues) ==
    [i \in 1..Len(issues) |->
        [field |-> target \o "." \o JoinPath(issues[i].path),
         message |-> issues[i].message]]

\* The state the loop carries: the request, allErrors, and the targets parsed.
LoopState(r, errors, parsed) == [req |-> r, allErrors |-> errors, parsed |-> parsed]

\* Variant: the loop is left at the first target that fails.
RECURSIVE ForEachEntryUntilFailure(_, _)
ForEachEntryUntilFailure(entries, st) ==
    IF entries = <<>> THEN st
    ELSE LET e == Head(entries) IN
         IF e.schema = NoSchema THEN ForEachEntryUntilFailure(Tail(entries), st)
         ELSE LET result == Parse(e.schema, st.req[e.target])
                  seen == st.parsed \cup {e.target}
              IN  IF result.ok
                  THEN ForEachEntryUntilFailure(Tail(entries),
                           LoopState(WriteBack(st.req, e.target, result.data),
                                     st.allErrors, seen))
                  ELSE LoopState(st.req,
                                 st.allErrors \o PrefixedErrors(e.target, result.issues),
                                 seen)

\* for (const [target, schema] of Object.entries(schemas)) { ... }: an entry
\* without schema is skipped; a target that parses is written back to the
\* request; the issues of one that does not are appended to allErrors and
\* the loop goes on.  (parse throws nothing but a ZodError for the schemas
\* modelled, so the branch next(error); return is not taken.)
RECURSIVE ForEachEntry(_, _)
ForEachEntry(entries, st) ==
    IF entries = <<>> THEN st
    ELSE LET e == Head(entries) IN
         IF e.schema = NoSchema THEN ForEachEntry(Tail(entries), st)
         ELSE LET result == Parse(e.schema, st.req[e.target])
                  seen == st.parsed \cup {e.target}
              IN  IF result.ok
                  THEN ForEachEntry(Tail(entries),
                           LoopState(WriteBack(st.req, e.target, result.data),
                                     st.allErrors, seen))
                  ELSE ForEachEntry(Tail(entries),
                           LoopState(st.req,
                                     st.allErrors \o PrefixedErrors(e.target, result.issues),
                                     seen))

\* The middleware returned by validateMultiple(schemas), run on req: one
\* synchronous handler.
ValidateMultiple ==
    /\ mmPc = "pending"
    /\ LET st == ForEachEntry(mmEntries, LoopState(req, <<>>, {})) IN
       /\ req' = st.req
       /\ mmParsed' = st.parsed
       /\ IF Len(st.allErrors) > 0
          THEN /\ res' = SendError("Validation failed", 400, st.allErrors)
               /\ UNCHANGED <<nextCalls, reqAtNext>>
          ELSE /\ nextCalls' = Append(nextCalls, NoArgument)
               /\ reqAtNext' = Append(reqAtNext, req')
               /\ res' = res
    /\ mmPc' = "done"
    /\ UNCHANGED <<mmEntries, mwSchema, mwTarget, mwPc, reqIn>>
    /\ UNCHANGED <<allocVars, fmtVars, pgVars, hsVars>>

\* The schemas objects: one to three distinct targets in any order, each
\* with a schema or none.
TargetOrders ==
    {o \in UNION {[1..n -> Targets] : n \in 1..3} :
        \A i, j \in 1..Len(o) : i # j => o[i] # o[j]}

EntryLists ==
    UNION {{[i \in 1..Len(o) |-> Entry(o[i], sch[i])] :
               sch \in [1..Len(o) -> Schemas \cup {NoSchema}]} : o \in TargetOrders}

\* The objects the request parts are drawn from.
MultiObjects ==
    {EmptyObject,
     With(EmptyObject, "q", Str(<<"a">>)),
     With(EmptyObject, "q", Str(<<"a", "b">>)),
     With(With(EmptyObject, "q", Str(<<"a", "b">>)), "x", Str(<<"1">>)),
     With(With(EmptyObject, "q", Str(<<"a">>)), "type", Str(<<"z", "z">>))}

ValidateMultipleQuiet ==
    /\ mmEntries = <<>>
    /\ mmPc = "idle"
    /\ mmParsed = {}

ValidateMultipleInit ==
    /\ mmEntries \in EntryLists
    /\ mmPc = "pending"
    /\ mmParsed = {}
    /\ mwSchema = "autocompleteQuerySchema"
    /\ mwTarget = "body"
    /\ mwPc = "idle"
    /\ req \in [body : MultiObjects, query : MultiObjects, params : MultiObjects]
    /\ reqIn = req
    /\ res = NoResponse
    /\ nextCalls = <<>>
    /\ reqAtNext = <<>>

(***************************************************************************)
(* paginationQuerySchema alone.                                            *)
(***************************************************************************)
MaxStrLen == 3

\* paginationQuerySchema.parse(obj): the shape is page, limit; both are
\* optional strings and both are transformed to numbers.
ParsePagination(obj) ==
    LET issues == StringOrAbsentIssues(obj, "page") \o StringOrAbsentIssues(obj, "limit")
    IN  IF issues # <<>> THEN Rejected(issues)
        ELSE Accepted([k \in {"page", "limit"} |->
                 IF k = "page" THEN Num(PageOf(obj)) ELSE Num(LimitOf(obj))])

\* The characters the query strings are written with, and the strings.
QueryChars == {"0", "1", "9", "-", "+", "a", " "}

QueryStrings == UNION {[1..n -> QueryChars] : n \in 0..MaxStrLen}

\* A query value: a string, or (not a string) a number.
QueryValues == {Str(v) : v \in QueryStrings} \cup {Num(5)}

\* The values one key is given while the other ranges over QueryValues.
FewValues == {Str(<<>>), Str(<<"-", "1">>), Str(<<"1", "0", "1">>), Str(<<"a">>)}

Field(k, values) == {EmptyObject} \cup {With(EmptyObject, k, v) : v \in values}

\* The two transforms read one key each: every value of the one key is
\* paired with a few of the other.
PaginationObjects ==
    {ObjectAssign(a, b) : a \in Field("page", QueryValues), b \in Field("limit", FewValues)}
    \cup
    {ObjectAssign(a, b) : a \in Field("page", FewValues), b \in Field("limit", QueryValues)}

PaginationQuiet ==
    /\ pgIn = EmptyObject
    /\ pgOut = <<>>

PaginationInit ==
    /\ pgIn \in PaginationObjects
    /\ pgOut = <<>>

\* paginationQuerySchema.parse(pgIn)
ParsePaginationQuery ==
    /\ pgOut = <<>>
    /\ pgOut' = <<ParsePagination(pgIn)>>
    /\ UNCHANGED pgIn
    /\ UNCHANGED <<allocVars, fmtVars, mwVars, mmVars, hsVars>>

(***************************************************************************)
(* The homestays controller.                                               *)
(***************************************************************************)
(*                                                                         *)
(* A homestay is an object: _id, title, pricing (its basePrice), status,   *)
(* createdAt, updatedAt, and whatever else the request body carried.  Ids  *)
(* are numbered in the order generateId returned them; id 0 stands for an  *)
(* id no homestay carries.  Times are readings of the clock.               *)
(***************************************************************************)
MaxRequests == 4
MaxTime == 2
MinBasePrice == 100

\* generateId(): an id not returned before.
GenerateId == generated + 1

\* new Date(): the clock has not gone back since it was last read.
Clock == {t \in now..MaxTime : t <= now + 1}

\* homestaysStore.findIndex(h => h._id === id), counting from 1; 0 for -1.
FindIndex(store, id) ==
    IF \E i \in 1..Len(store) : store[i]["_id"] = id
    THEN CHOOSE i \in 1..Len(store) :
             /\ store[i]["_id"] = id
             /\ \A j \in 1..(i - 1) : store[j]["_id"] # id
    ELSE 0

\* homestaysStore.splice(index, 1)
Splice(store, index) ==
    SubSeq(store, 1, index - 1) \o SubSeq(store, index + 1, Len(store))

\* sendSuccess(res, data, statusCode, message), sendError(res, message,
\* statusCode): what the handler hands over.
Response(statusCode, message) == [status |-> statusCode, message |-> message]

NoRequest == [handler |-> "none", id |-> 0, body |-> EmptyObject]
Request(handler, id, body) == [handler |-> handler, id |-> id, body |-> body]

\* The request bodies: any object may arrive, also one with _id, createdAt.
CreateBodies ==
    {ObjectAssign(ObjectAssign(a, b), c) :
        a \in Field("title", {"", "A"}), b \in Field("pricing", {50, 100}),
        c \in Field("_id", 1..generated)}

UpdateBodies ==
    {ObjectAssign(ObjectAssign(a, b), c) :
        a \in Field("title", {"B"}), b \in Field("_id", 1..generated),
        c \in Field("createdAt", {MaxTime + 1})}

\* The ids a request addresses.
RequestIds == 0..generated

\* { _id: generateId(), ...input, status: 'active', createdAt: now, updatedAt: now }
NewHomestay(input, id, time) ==
    With(With(With(ObjectAssign(With(EmptyObject, "_id", id), input),
                   "status", "active"), "createdAt", time), "updatedAt", time)

\* Variant: the body is spread last.
UpdatedHomestayBodyLast(existing, updates, time) ==
    ObjectAssign(With(With(With(existing, "_id", existing["_id"]),
                           "createdAt", existing["createdAt"]), "updatedAt", time),
                 updates)

\* { ...homestaysStore[index], ...updates, _id: homestaysStore[index]._id,
\*   createdAt: homestaysStore[index].createdAt, updatedAt: new Date() }
UpdatedHomestay(existing, updates, time) ==
    With(With(With(ObjectAssign(existing, updates), "_id", existing["_id"]),
              "createdAt", existing["createdAt"]), "updatedAt", time)

HomestaysQuiet ==
    /\ homestaysStore = <<>>
    /\ now = 0
    /\ generated = 0
    /\ hsRequests = 0
    /\ hsRes = Response(0, "")
    /\ hsData = <<>>
    /\ hsLast = NoRequest
    /\ storeBefore = <<>>

HomestaysInit == HomestaysQuiet

\* What every handler does to the history of the requests.
Received(handler, id, body) ==
    /\ hsRequests < MaxRequests
    /\ hsRequests' = hsRequests + 1
    /\ hsLast' = Request(handler, id, body)
    /\ storeBefore' = homestaysStore
    /\ UNCHANGED <<allocVars, fmtVars, mwVars, mmVars, pgVars>>

\* POST /api/homestays.  The body's pricing is modelled by its basePrice;
\* !input.title holds of a missing and of an empty title.
CreateHomestay ==
    \E input \in CreateBodies, time \in Clock :
        /\ Received("createHomestay", 0, input)
        /\ now' = time
        /\ IF \/ "title" \notin DOMAIN input
              \/ input["title"] = ""
              \/ "pricing" \notin DOMAIN input
              \/ input["pricing"] < MinBasePrice
           THEN /\ hsRes' = Response(400, "Validation failed")
                /\ hsData' = <<>>
                /\ UNCHANGED <<homestaysStore, generated>>
           ELSE LET newHomestay == NewHomestay(input, GenerateId, time) IN
                /\ generated' = GenerateId
                /\ homestaysStore' = Append(homestaysStore, newHomestay)
                /\ hsRes' = Response(201, "Homestay created successfully")
                /\ hsData' = <<newHomestay>>

\* GET /api/homestays/:id
GetHomestayById ==
    \E id \in RequestIds, time \in Clock :
        /\ Received("getHomestayById", id, EmptyObject)
        /\ now' = time
        /\ LET index == FindIndex(homestaysStore, id) IN
           IF index = 0
           THEN /\ hsRes' = Response(404, "Homestay not found")
                /\ hsData' = <<>>
           ELSE /\ hsRes' = Response(200, "")
                /\ hsData' = <<homestaysStore[index]>>
        /\ UNCHANGED <<homestaysStore, generated>>

\* PUT /api/homestays/:id
UpdateHomestay ==
    \E id \in RequestIds, updates \in UpdateBodies, time \in Clock :
        /\ Received("updateHomestay", id, updates)
        /\ now' = time
        /\ LET index == FindIndex(homestaysStore, id) IN
           IF index = 0
           THEN /\ hsRes' = Response(404, "Homestay not found")
                /\ hsData' = <<>>
                /\ UNCHANGED homestaysStore
           ELSE LET updatedHomestay ==
                        UpdatedHomestay(homestaysStore[index], updates, time) IN
                /\ homestaysStore' = [homestaysStore EXCEPT ![index] = updatedHomestay]
                /\ hsRes' = Response(200, "Homestay updated successfully")
                /\ hsData' = <<updatedHomestay>>
        /\ UNCHANGED generated

\* DELETE /api/homestays/:id
DeleteHomestay ==
    \E id \in RequestIds, time \in Clock :
        /\ Received("deleteHomestay", id, EmptyObject)
        /\ now' = time
        /\ LET index == FindIndex(homestaysStore, id) IN
           IF index = 0
           THEN /\ hsRes' = Response(404, "Homestay not found")
                /\ UNCHANGED homestaysStore
           ELSE /\ homestaysStore' = Splice(homestaysStore, index)
                /\ hsRes' = Response(200, "Homestay deleted successfully")
        /\ hsData' = <<>>
        /\ UNCHANGED generated

(***************************************************************************)
(* Specifications.                                                         *)
(***************************************************************************)
\* The allocator under concurrent callers.
OthersQuiet == ValidateMultipleQuiet /\ PaginationQuiet /\ HomestaysQuiet

Init == AllocInit /\ FormatQuiet /\ ValidateQuiet /\ OthersQuiet

Next == AllocNext

Spec == Init /\ [][Next]_vars

\* Formatting alone.
FormatSpecInit == AllocQuiet /\ FormatInit /\ ValidateQuiet /\ OthersQuiet

FormatNext == Format

SpecFormat == FormatSpecInit /\ [][FormatNext]_vars

\* One request through the validation middleware.
ValidateSpecInit == AllocQuiet /\ FormatQuiet /\ ValidateInit /\ OthersQuiet

ValidateNext == Validate

SpecValidate == ValidateSpecInit /\ [][ValidateNext]_vars

\* One request through the middleware of validateMultiple.
ValidateMultipleSpecInit ==
    AllocQuiet /\ FormatQuiet /\ ValidateMultipleInit /\ PaginationQuiet /\ HomestaysQuiet

ValidateMultipleNext == ValidateMultiple

SpecValidateMultiple == ValidateMultipleSpecInit /\ [][ValidateMultipleNext]_vars

\* One object through paginationQuerySchema.
PaginationSpecInit ==
    /\ AllocQuiet /\ FormatQuiet /\ ValidateQuiet /\ ValidateMultipleQuiet
    /\ PaginationInit /\ HomestaysQuiet

PaginationNext == ParsePaginationQuery

SpecPagination == PaginationSpecInit /\ [][PaginationNext]_vars

\* Requests to the homestays controller, one after the other.
HomestaysSpecInit ==
    /\ AllocQuiet /\ FormatQuiet /\ ValidateQuiet /\ ValidateMultipleQuiet
    /\ PaginationQuiet /\ HomestaysInit

HomestaysNext ==
    \/ CreateHomestay
    \/ GetHomestayById
    \/ UpdateHomestay
    \/ DeleteHomestay

SpecHomestays == HomestaysSpecInit /\ [][HomestaysNext]_vars

(***************************************************************************)
(* Reading a returned string back, independently of how it was built.      *)
(***************************************************************************)
DigitValue(ch) == CHOOSE d \in 0..9 : DigitChars[d + 1] = ch

IsDigits(s) == \A k \in 1..Len(s) : \E d \in 0..9 : DigitChars[d + 1] = s[k]

RECURSIVE DigitsValue(_)
DigitsValue(s) ==
    IF s = <<>> THEN 0
    ELSE 10 * DigitsValue(SubSeq(s, 1, Len(s) - 1)) + DigitValue(s[Len(s)])

RECURSIVE Text(_)
Text(s) == IF s = <<>> THEN "" ELSE s[1] \o Text(Tail(s))

Prefix(str) == SubSeq(str, 1, 3)
YearPart(str) == SubSeq(str, 4, 7)
NumericPart(str) == SubSeq(str, 9, Len(str))

(***************************************************************************)
(* C1.  Whatever the number of callers and however their store operations  *)
(* interleave, no two successful calls of getNextBookingNumber return the  *)
(* same sequence value.                                                    *)
(***************************************************************************)
C1_NoTwoCallsReturnSameSeq ==
    \A i, j \in OkOutcomes : i # j => outcomes[i].seq # outcomes[j].seq

\* Two calls of different handlers overlapped: the one whose update was
\* applied later returned first.
C1_Witness ==
    \E i, j \in OkOutcomes :
        /\ i < j
        /\ outcomes[i].proc # outcomes[j].proc
        /\ outcomes[i].slot > outcomes[j].slot

(***************************************************************************)
(* C2.  N concurrent calls against a fresh counter, all successful, return *)
(* exactly {1001, ..., 1000+N}.  (Stated as claimed; the code starts a     *)
(* fresh counter at 1, see C3.)                                            *)
(***************************************************************************)
AllCallsSucceeded ==
    /\ calls >= 1
    /\ \A p \in Procs : pc[p] = "idle"
    /\ Len(outcomes) = calls
    /\ OkOutcomes = 1..Len(outcomes)

C2_FreshCounterYields1001ToN ==
    (~initial.exists /\ AllCallsSucceeded)
        => Returned = (SeqDefault + 1)..(SeqDefault + calls)

(***************************************************************************)
(* C3.  The first allocation against a missing counter document creates it *)
(* with seq = 1000 incremented once: it returns 1001 and leaves seq =      *)
(* 1001, and the document exists from then on.  (Stated as claimed.)       *)
(***************************************************************************)
C3_FirstAllocationReturns1001 ==
    (~initial.exists /\ commits # <<>>)
        => /\ counter.exists
           /\ commits[1].seq = SeqDefault + 1
           /\ (Len(commits) = 1 => counter.seq = SeqDefault + 1)
           /\ \A i \in OkOutcomes :
                  outcomes[i].slot = 1 => outcomes[i].seq = SeqDefault + 1

(***************************************************************************)
(* C4.  seq never decreases from one state to the next, and every          *)
(* successful allocation returns a value strictly greater than every value *)
(* returned by an allocation that had completed before it started.         *)
(***************************************************************************)
SeqNeverDecreases ==
    counter.exists => (counter'.exists /\ counter'.seq >= counter.seq)

ReturnsAboveEarlierReturns ==
    \A i \in OkOutcomes : outcomes[i].seq > outcomes[i].floor

C4_SeqMonotonic ==
    [][SeqNeverDecreases]_vars /\ []ReturnsAboveEarlierReturns

\* Two back-to-back calls of one handler: the second began after the first
\* had returned.
C4_Witness ==
    \E i, j \in OkOutcomes :
        /\ i < j
        /\ outcomes[i].proc = outcomes[j].proc
        /\ outcomes[j].floor >= outcomes[i].seq

(***************************************************************************)
(* C5.  The returned string is 'JY-' + the year read when the call began + *)
(* '-' + the post-increment seq padded to 6 digits; from {seq: 1000} in    *)
(* 2025 the first allocation yields 'JY-2025-001001', the second           *)
(* 'JY-2025-001002'.                                                       *)
(***************************************************************************)
C5_StringFormat ==
    \A i \in OkOutcomes :
        LET r == outcomes[i] IN
        /\ Prefix(r.str) = <<"J", "Y", "-">>
        /\ IsDigits(YearPart(r.str)) /\ DigitsValue(YearPart(r.str)) = r.year
        /\ r.str[8] = "-"
        /\ IsDigits(NumericPart(r.str)) /\ DigitsValue(NumericPart(r.str)) = r.seq
        /\ (initial.exists /\ initial.seq = 1000 /\ r.year = 2025) =>
              /\ (r.slot = 1 => Text(r.str) = "JY-2025-001001")
              /\ (r.slot = 2 => Text(r.str) = "JY-2025-001002")

\* From {seq: 1000}, two allocations in 2025 have both returned; the year
\* has since changed.
C5_Witness ==
    /\ initial.exists /\ initial.seq = 1000
    /\ \E i, j \in OkOutcomes :
        /\ outcomes[i].slot = 1 /\ outcomes[i].year = 2025
        /\ outcomes[j].slot = 2 /\ outcomes[j].year = 2025
    /\ year = 2026

(***************************************************************************)
(* C6.  The numeric part of a booking number is the decimal rendering of   *)
(* seq, left-padded with '0' to at least 6 characters and never cut:       *)
(* exactly 6 digits below 1000000 (7 gives '000007'), the full rendering   *)
(* from 1000000 on (1234567 gives '1234567'); its value is always seq.     *)
(* Checked under SpecFormat.                                               *)
(***************************************************************************)
C6_PaddedNeverTruncated ==
    fmtOut # <<>> =>
        LET num == NumericPart(fmtOut) IN
        /\ IsDigits(num)
        /\ DigitsValue(num) = fmtSeq
        /\ Len(num) >= 6
        /\ fmtSeq < 1000000 => Len(num) = 6
        /\ fmtSeq >= 1000000 => num[1] # "0"
        /\ fmtSeq = 7 => Text(num) = "000007"
        /\ fmtSeq = 1234567 => Text(num) = "1234567"

C6_Witness == fmtOut # <<>> /\ fmtSeq = 1234567

(***************************************************************************)
(* C7.  The sequence does not restart with the calendar year: of two       *)
(* successful allocations applied in that order, the later one reading a   *)
(* later year, the second returns the first value plus the number of       *)
(* increments applied in between, and the strings differ in the year part  *)
(* while prefix and numbering continue.                                    *)
(***************************************************************************)
C7_NoResetAtYearBoundary ==
    \A i, j \in OkOutcomes :
        LET a == outcomes[i]
            b == outcomes[j]
        IN (a.slot < b.slot /\ a.year < b.year) =>
              /\ b.seq = a.seq + (b.slot - a.slot) * IncAmount
              /\ b.seq > a.seq
              /\ Prefix(b.str) = Prefix(a.str)
              /\ DigitsValue(YearPart(a.str)) = a.year
              /\ DigitsValue(YearPart(b.str)) = b.year
              /\ DigitsValue(NumericPart(b.str)) > DigitsValue(NumericPart(a.str))

C7_Witness ==
    \E i, j \in OkOutcomes :
        /\ outcomes[i].slot < outcomes[j].slot
        /\ outcomes[i].year = 2025 /\ outcomes[j].year = 2026

(***************************************************************************)
(* C8.  When the store cannot be reached or the update fails, the call     *)
(* fails: it yields an error and no booking number, the error reaches the  *)
(* caller instead of a default value, and a failed update leaves seq       *)
(* unchanged.                                                              *)
(***************************************************************************)
FailureLeavesSeqUnchanged ==
    \A p \in Procs :
        (pc[p] = "awaiting" /\ pc'[p] = "idle") =>
            /\ counter' = counter
            /\ commits' = commits
            /\ Len(outcomes') = Len(outcomes) + 1
            /\ outcomes'[Len(outcomes')].kind = "error"
            /\ outcomes'[Len(outcomes')].proc = p

ErrorsCarryNoBookingNumber ==
    /\ \A i \in ErrOutcomes :
           "str" \notin DOMAIN outcomes[i] /\ "seq" \notin DOMAIN outcomes[i]
    /\ \A i \in OkOutcomes :
           LET r == outcomes[i] IN
           /\ r.slot \in 1..Len(commits)
           /\ commits[r.slot].proc = r.proc
           /\ commits[r.slot].seq = r.seq

C8_FailurePropagates ==
    [][FailureLeavesSeqUnchanged]_vars /\ []ErrorsCarryNoBookingNumber

\* An update failed against an existing document; the caller holds an error.
C8_Witness ==
    \E i \in ErrOutcomes :
        /\ ~outcomes[i].committed
        /\ outcomes[i].seen.exists
        /\ counter = outcomes[i].seen

(***************************************************************************)
(* C9.  A timed-out attempt may or may not have been applied.  If it was,  *)
(* its value is skipped (returned to nobody) and the next allocation gets  *)
(* the next higher value; if it was not, the next allocation gets the      *)
(* value the failed attempt would have returned.  Either way no value is   *)
(* returned twice.                                                         *)
(***************************************************************************)
C9_RetryAfterTimeout ==
    /\ \A i, j \in OkOutcomes : i # j => outcomes[i].seq # outcomes[j].seq
    /\ \A i \in ErrOutcomes :
        LET e == outcomes[i] IN
        IF e.committed
        THEN /\ commits[e.slot].seq \notin Returned
             /\ Len(commits) > e.slot =>
                    commits[e.slot + 1].seq = commits[e.slot].seq + 1
             /\ \A j \in OkOutcomes :
                    (j > i /\ outcomes[j].proc = e.proc) =>
                        outcomes[j].seq > commits[e.slot].seq
        ELSE Len(commits) > e.slot =>
                 commits[e.slot + 1].seq = (IF e.seen.exists THEN e.seen.seq ELSE 0) + 1

\* A handler's first attempt was applied but timed out, a second attempt
\* was refused, and its third attempt returned.
C9_Witness ==
    \E i, j, k \in 1..Len(outcomes) :
        /\ i < j /\ j < k
        /\ outcomes[i].proc = outcomes[j].proc /\ outcomes[j].proc = outcomes[k].proc
        /\ outcomes[i].kind = "error" /\ outcomes[i].committed
        /\ outcomes[j].kind = "error" /\ ~outcomes[j].committed
        /\ outcomes[k].kind = "ok"

(***************************************************************************)
(* C10.  validate(schema, target): when the schema rejects req[target], a  *)
(* 400 'Validation failed' response with one {field, message} entry per    *)
(* issue is sent, next() is not called and req[target] is as it arrived;   *)
(* when the schema accepts, nothing is sent, next() is called once without *)
(* argument, and req[target] is the validated data when next() is called.  *)
(* Checked under SpecValidate.  (Stated as claimed.)                       *)
(***************************************************************************)
RejectedAsClaimed(parsed) ==
    /\ res.sent /\ res.status = 400 /\ res.message = "Validation failed"
    /\ Len(res.errors) = Len(parsed.issues)
    /\ \A i \in 1..Len(parsed.issues) :
           /\ res.errors[i].field = parsed.issues[i].path[1]
           /\ res.errors[i].message = parsed.issues[i].message
    /\ nextCalls = <<>>
    /\ req = reqIn

NextCalledOnce ==
    /\ ~res.sent
    /\ nextCalls = <<NoArgument>>
    /\ Len(reqAtNext) = 1

C10_ValidateContract ==
    mwPc = "done" =>
        LET parsed == Parse(mwSchema, reqIn[mwTarget]) IN
        IF parsed.ok
        THEN NextCalledOnce /\ reqAtNext[1][mwTarget] = parsed.data
        ELSE RejectedAsClaimed(parsed)

\* What the code does establish: as C10, except that for 'query' and
\* 'params' the validated keys are written onto the object that arrived, so
\* the keys the schema dropped are still there.
C10_ValidatedKeysWritten ==
    mwPc = "done" =>
        LET parsed == Parse(mwSchema, reqIn[mwTarget]) IN
        IF parsed.ok
        THEN /\ NextCalledOnce
             /\ LET got == reqAtNext[1][mwTarget] IN
                /\ \A k \in DOMAIN parsed.data : k \in DOMAIN got /\ got[k] = parsed.data[k]
                /\ mwTarget = "body" => got = parsed.data
                /\ mwTarget # "body" =>
                       /\ DOMAIN got = DOMAIN reqIn[mwTarget] \cup DOMAIN parsed.data
                       /\ \A k \in DOMAIN got \ DOMAIN parsed.data :
                              got[k] = reqIn[mwTarget][k]
        ELSE RejectedAsClaimed(parsed)


(***************************************************************************)
(* C11.  validateMultiple validates every supplied target, also after an   *)
(* earlier one has failed.  If at least one target fails, one 400 response *)
(* is sent whose error list holds the issues of all failing targets, in    *)
(* the order of the targets, each field prefixed with its target name, and *)
(* next() is not called.  If every supplied target passes, nothing is sent *)
(* and next() is called once, without argument.                            *)
(* Checked under SpecValidateMultiple.                                     *)
(***************************************************************************)
StartsWith(str, pre) == Len(str) >= Len(pre) /\ SubSeq(str, 1, Len(pre)) = pre

SuppliedAt == {i \in 1..Len(mmEntries) : mmEntries[i].schema # NoSchema}

FailingAt ==
    {i \in SuppliedAt : ~Parse(mmEntries[i].schema, reqIn[mmEntries[i].target]).ok}

\* The issues of the i-th entry as the response should list them.
IssuesAt(i) ==
    LET t == mmEntries[i].target
        issues == Parse(mmEntries[i].schema, reqIn[t]).issues
    IN  [k \in 1..Len(issues) |->
            [field |-> Text(<<t, ".">>) \o issues[k].path[1],
             message |-> issues[k].message]]

\* The issues of the failing entries from the i-th on, in entry order.
RECURSIVE IssuesFrom(_)
IssuesFrom(i) ==
    IF i > Len(mmEntries) THEN <<>>
    ELSE (IF i \in FailingAt THEN IssuesAt(i) ELSE <<>>) \o IssuesFrom(i + 1)

Absent(k) == k \notin DOMAIN pgIn

\* pgIn[k] is the string of a decimal numeral.
Numeral(k) == ~Absent(k) /\ pgIn[k].str # <<>> /\ IsDigits(pgIn[k].str)

\* pgIn[k] is a minus sign and a decimal numeral.
NegativeNumeral(k) ==
    /\ ~Absent(k) /\ Len(pgIn[k].str) > 1
    /\ pgIn[k].str[1] = "-" /\ IsDigits(Tail(pgIn[k].str))

\* pgIn[k] is a string that does not begin, blanks aside, like a number.
NotANumber(k) ==
    /\ ~Absent(k)
    /\ \A i \in 1..Len(pgIn[k].str) :
           (\A j \in 1..(i - 1) : pgIn[k].str[j] = " ")
               => ~IsDigits(<<pgIn[k].str[i]>>) /\ pgIn[k].str[i] \notin {"-", "+"}

DefaultCase(k) ==
    \/ Absent(k) \/ NotANumber(k) \/ NegativeNumeral(k)
    \/ Numeral(k) /\ DigitsValue(pgIn[k].str) < 1

C12_PaginationBounds ==
    (pgOut # <<>> /\ pgOut[1].ok) =>
        LET page == pgOut[1].data["page"].num
            limit == pgOut[1].data["limit"].num
        IN  /\ DOMAIN pgOut[1].data = {"page", "limit"}
            /\ page >= 1
            /\ limit >= 1 /\ limit <= 100
            /\ DefaultCase("page") => page = 1
            /\ DefaultCase("limit") => limit = 10
            /\ Numeral("page") /\ DigitsValue(pgIn["page"].str) >= 1
                   => page = DigitsValue(pgIn["page"].str)
            /\ Numeral("limit") /\ DigitsValue(pgIn["limit"].str) \in 1..100
                   => limit = DigitsValue(pgIn["limit"].str)
            /\ Numeral("limit") /\ DigitsValue(pgIn["limit"].str) > 100 => limit = 100
            /\ (~Absent("limit") /\ pgIn["limit"].str = <<"1", "0", "1">>) => limit = 100
            /\ (~Absent("limit") /\ pgIn["limit"].str = <<"1", "0", "0">>) => limit = 100
            /\ (~Absent("page") /\ pgIn["page"].str = <<"1", "0", "1">>) => page = 101

\* A limit above 100 has been cut to 100 while the page was defaulted from a
\* negative value.
C12_Witness ==
    /\ pgOut # <<>> /\ pgOut[1].ok
    /\ Numeral("limit") /\ DigitsValue(pgIn["limit"].str) > 100
    /\ NegativeNumeral("page")
    /\ pgOut[1].data["limit"].num = 100
    /\ pgOut[1].data["page"].num = 1


(***************************************************************************)
(* C13.  updateHomestay on an id some homestay carries changes no          *)
(* homestay's _id or createdAt, whatever the body holds (_id and createdAt *)
(* included), and changes one record only, one that carries the id: the    *)
(* store keeps its length and its order and every other homestay is as it  *)
(* was.                                                                    *)
(* Checked under SpecHomestays.                                            *)
(***************************************************************************)
CarriedBefore(id) == {i \in 1..Len(storeBefore) : storeBefore[i]["_id"] = id}

C13_UpdateKeepsIdentity ==
    (hsLast.handler = "updateHomestay" /\ CarriedBefore(hsLast.id) # {}) =>
        /\ Len(homestaysStore) = Len(storeBefore)
        /\ \A i \in 1..Len(storeBefore) :
               /\ homestaysStore[i]["_id"] = storeBefore[i]["_id"]
               /\ homestaysStore[i]["createdAt"] = storeBefore[i]["createdAt"]
        /\ \E i \in CarriedBefore(hsLast.id) :
               \A j \in 1..Len(storeBefore) : j # i => homestaysStore[j] = storeBefore[j]

\* The second of two homestays has been updated with a body that names
\* another _id and a createdAt, and its title has changed.
C13_Witness ==
    /\ hsLast.handler = "updateHomestay"
    /\ Len(storeBefore) = 2
    /\ storeBefore[1]["_id"] # storeBefore[2]["_id"]
    /\ hsLast.id = storeBefore[2]["_id"]
    /\ "_id" \in DOMAIN hsLast.body /\ hsLast.body["_id"] # hsLast.id
    /\ "createdAt" \in DOMAIN hsLast.body
    /\ hsLast.body["createdAt"] # storeBefore[2]["createdAt"]
    /\ homestaysStore[2]["title"] # storeBefore[2]["title"]
    /\ hsRes = Response(200, "Homestay updated successfully")


(***************************************************************************)
(* C14.  getHomestayById, updateHomestay and deleteHomestay with an id no  *)
(* homestay carries answer 404 'Homestay not found' and leave the store as *)
(* it was.  deleteHomestay with an id in the store removes one homestay    *)
(* carrying it and leaves the others and their order as they were; the     *)
(* next get, update or delete with the same id answers 404.                *)
(* Checked under SpecHomestays.  (Stated as claimed.)                      *)
(***************************************************************************)
ByIdHandlers == {"getHomestayById", "updateHomestay", "deleteHomestay"}

NotFound == Response(404, "Homestay not found")

UnknownIdIs404 ==
    (hsLast.handler \in ByIdHandlers /\ CarriedBefore(hsLast.id) = {}) =>
        /\ hsRes = NotFound
        /\ homestaysStore = storeBefore

\* storeBefore without its i-th homestay
Without(i) ==
    [j \in 1..(Len(storeBefore) - 1) |->
        IF j < i THEN storeBefore[j] ELSE storeBefore[j + 1]]

DeleteRemovesOne ==
    (hsLast.handler = "deleteHomestay" /\ CarriedBefore(hsLast.id) # {}) =>
        /\ hsRes = Response(200, "Homestay deleted successfully")
        /\ \E i \in CarriedBefore(hsLast.id) : homestaysStore = Without(i)

\* A homestay has just been deleted and the next request names the same id.
SameIdAfterDelete ==
    /\ hsLast.handler = "deleteHomestay"
    /\ CarriedBefore(hsLast.id) # {}
    /\ hsRequests' = hsRequests + 1
    /\ hsLast'.handler \in ByIdHandlers
    /\ hsLast'.id = hsLast.id

C14_NotFoundAndDelete ==
    /\ [](UnknownIdIs404 /\ DeleteRemovesOne)
    /\ [][SameIdAfterDelete => hsRes' = NotFound]_vars

\* What the code does establish: as C14, with the homestay removed being
\* the first that carries the id, and with 404 for the same id afterwards
\* when no other homestay carried it.
C14_DeleteRemovesFirstMatch ==
    /\ [](UnknownIdIs404 /\ DeleteRemovesOne)
    /\ [](hsLast.handler = "deleteHomestay" /\ CarriedBefore(hsLast.id) # {} =>
              \A i \in CarriedBefore(hsLast.id) :
                  (\A j \in CarriedBefore(hsLast.id) : i <= j) => homestaysStore = Without(i))
    /\ [][SameIdAfterDelete /\ Cardinality(CarriedBefore(hsLast.id)) = 1
              => hsRes' = NotFound]_vars

\* A homestay has been deleted from between two others.
C14_DeletedFromTheMiddle ==
    /\ hsLast.handler = "deleteHomestay"
    /\ Len(storeBefore) = 3
    /\ CarriedBefore(hsLast.id) = {2}
    /\ homestaysStore = <<storeBefore[1], storeBefore[3]>>

====
